---- MODULE Spec2Model ----
(***************************************************************************)
(* GGM tree with octopus opening (src/main.py).                            *)
(*                                                                         *)
(* Python lists are sequences; a 0-based Python index i is the TLA+ index  *)
(* i+1.  Byte strings are sequences too: b'' is << >>.  SHAKE-256 is       *)
(* modelled as a collision-free symbolic function: the 32-byte digest of   *)
(* key is the term "key followed by one more symbol", whose first half is  *)
(* key.0 and whose second half is key.1.  Python integers are unbounded,   *)
(* so no width is applied.                                                 *)
(***************************************************************************)
EXTENDS Integers, Sequences, FiniteSets

VARIABLES pc, M, N, seed, A, tree, proof, recovered, wlog, pos

vars == <<pc, M, N, seed, A, tree, proof, recovered, wlog, pos>>

(* ---------------------------- bounds ----------------------------------- *)
MaxM == 3
MaxN == 5
MaxA == 3
MaxLeaves == 15
AdvMaxMN == 2
AdvMaxSteps == 2
AdvMaxEntries == 2

Seeds == { <<0>>, <<1>> }
AdvValues == { <<8>>, <<9>> }

(* ---------------------- Python built-ins used -------------------------- *)
RECURSIVE bit_length(_)
bit_length(n) == IF n = 0 THEN 0 ELSE 1 + bit_length(n \div 2)

RECURSIVE shl1(_)
shl1(k) == IF k = 0 THEN 1 ELSE 2 * shl1(k - 1)

RECURSIVE xor(_, _)
xor(a, b) ==
    IF a = 0 THEN b
    ELSE IF b = 0 THEN a
    ELSE (((a % 2) + (b % 2)) % 2) + 2 * xor(a \div 2, b \div 2)

min(a, b) == IF a <= b THEN a ELSE b
max(a, b) == IF a >= b THEN a ELSE b

RECURSIVE sorted(_)
sorted(S) ==
    IF S = {} THEN << >>
    ELSE LET m == CHOOSE x \in S : \A y \in S : x <= y
         IN  <<m>> \o sorted(S \ {m})

elems(s) == { s[j] : j \in 1..Len(s) }

drop_last(s) == IF Len(s) = 0 THEN << >> ELSE SubSeq(s, 1, Len(s) - 1)

zip_len(idxs, vals) == min(Len(idxs), Len(vals))

(* ------------------------ find_abandon_index --------------------------- *)
height(m, n) == bit_length(m - 1) + bit_length(n - 1)

abandon_append_off(H, i) == H - i + 1
abandon_append(H, i) == H - i

RECURSIVE abandon_loop(_, _, _)
abandon_loop(diff, H, out) ==
    IF diff = 0 THEN out
    ELSE LET i == bit_length(diff) - 1
         IN  abandon_loop(xor(diff, shl1(i)), H, Append(out, abandon_append(H, i)))

find_abandon_index(m, n) ==
    LET H == height(m, n)
        diff == shl1(H) - m * n
    IN  abandon_loop(diff, H, << >>)

(* ------------------------ prg_split_shake_16 --------------------------- *)
prg_split_shake_16(key) == << Append(key, 0), Append(key, 1) >>

expand_level(nodes) ==
    [ j \in 1..(2 * Len(nodes)) |->
        prg_split_shake_16(nodes[(j + 1) \div 2])[((j - 1) % 2) + 1] ]

(* --------------------------- ggm_generate ------------------------------ *)
store_level_keep(next_level, d, abandon_layers) == next_level
store_level(next_level, d, abandon_layers) ==
    IF (d + 1) \in abandon_layers THEN drop_last(next_level) ELSE next_level

RECURSIVE generate_loop(_, _, _, _)
generate_loop(layers, d, H, abandon_layers) ==
    IF d >= H THEN layers
    ELSE LET current == layers[d + 1]
             next_level == expand_level(current)
         IN  generate_loop(Append(layers, store_level(next_level, d, abandon_layers)),
                           d + 1, H, abandon_layers)

ggm_generate(sd, m, n) ==
    LET abandon_layers == elems(find_abandon_index(m, n))
        H == height(m, n)
    IN  generate_loop(<< <<sd>> >>, 0, H, abandon_layers)

(* ----------------------------- ggm_open -------------------------------- *)
sibling_plus(i) == i + 1
sibling(i) == xor(i, 1)

pairs(target) ==
    { << min(target[j], sibling(target[j])), max(target[j], sibling(target[j])) >> :
        j \in 1..Len(target) }

B_pruned(target) == pairs(target)

flat(target) == UNION { { p[1], p[2] } : p \in B_pruned(target) }

need_keep_target(target, layer_size) ==
    sorted({ i \in flat(target) : i < layer_size })
need(target, layer_size) ==
    sorted({ i \in flat(target) \ elems(target) : i < layer_size })

parents_unhalved(target) == sorted({ p[1] : p \in B_pruned(target) })
parents(target) == sorted({ p[1] \div 2 : p \in B_pruned(target) })

open_step(layers, target, L) ==
    LET layer_size == Len(layers[L + 1])
        nd == need(target, layer_size)
    IN  [ layer |-> L,
          indices |-> nd,
          values |-> [ j \in 1..Len(nd) |-> layers[L + 1][nd[j] + 1] ] ]

RECURSIVE open_loop(_, _, _, _)
open_loop(layers, target, L, opening) ==
    IF L <= 0 THEN opening
    ELSE IF target = << >>
         THEN open_loop(layers, << >>, L - 1,
                        Append(opening, [ layer |-> L, indices |-> << >>, values |-> << >> ]))
         ELSE open_loop(layers, parents(target), L - 1,
                        Append(opening, open_step(layers, target, L)))

ggm_open(layers, AA) ==
    LET H == Len(layers) - 1
        target == sorted(AA)
    IN  open_loop(layers, target, H, << >>)

(* ------------------------ _layer_sizes_from_MN ------------------------- *)
RECURSIVE sizes_loop(_, _, _, _)
sizes_loop(sizes, d, H, abandon) ==
    IF d >= H THEN sizes
    ELSE LET s == sizes[Len(sizes)]
         IN  IF (d + 1) \in abandon /\ s > 0
             THEN sizes_loop(Append(sizes, 2 * s - 1), d + 1, H, abandon)
             ELSE sizes_loop(Append(sizes, 2 * s), d + 1, H, abandon)

_layer_sizes_from_MN(m, n) ==
    LET H == height(m, n)
        abandon == elems(find_abandon_index(m, n))
    IN  sizes_loop(<<1>>, 0, H, abandon)

(* -------------------------- _expand_to_leaves -------------------------- *)
touches_last_off(lo2, hi2, last_global) == lo2 <= last_global - 1 /\ last_global - 1 <= hi2
touches_last(lo2, hi2, last_global) == lo2 <= last_global /\ last_global <= hi2

RECURSIVE expand_loop(_, _, _, _, _, _)
expand_loop(level_nodes, lo, hi, d, H, sizes) ==
    IF d >= H THEN << lo, level_nodes >>
    ELSE LET nxt == expand_level(level_nodes)
             lo2 == 2 * lo
             hi2 == 2 * hi + 1
             last_global == sizes[d + 2]
         IN  IF touches_last(lo2, hi2, last_global)
             THEN expand_loop(drop_last(nxt), lo2, hi2 - 1, d + 1, H, sizes)
             ELSE expand_loop(nxt, lo2, hi2, d + 1, H, sizes)

_expand_to_leaves(node, start_layer, node_index, H, sizes) ==
    expand_loop(<<node>>, node_index, node_index, start_layer, H, sizes)

(* ----------------------------- ggm_verify ------------------------------ *)
(* The verifier's locals: the recovered array, whether IndexError was      *)
(* raised, and wlog, the trace of the assignments recovered[gi] = leaf in  *)
(* the order line 143 executes them.                                       *)
RECURSIVE write_leaves(_, _, _, _, _)
write_leaves(st, base, leaves, off, total) ==
    IF off >= Len(leaves) THEN st
    ELSE LET gi == base + off
             leaf == leaves[off + 1]
         IN  IF 0 <= gi /\ gi < total
             THEN write_leaves([ st EXCEPT !.recovered[gi + 1] = leaf,
                                           !.wlog = Append(@, << gi, leaf >>) ],
                               base, leaves, off + 1, total)
             ELSE [ st EXCEPT !.raised = TRUE ]

RECURSIVE verify_entries(_, _, _, _, _, _, _, _)
verify_entries(st, L, idxs, vals, j, H, sizes, total) ==
    IF st.raised \/ j > zip_len(idxs, vals) THEN st
    ELSE LET r == _expand_to_leaves(vals[j], L, idxs[j], H, sizes)
         IN  verify_entries(write_leaves(st, r[1], r[2], 0, total),
                            L, idxs, vals, j + 1, H, sizes, total)

verify_level(st, level, H, sizes, total) ==
    verify_entries(st, level.layer, level.indices, level.values, 1, H, sizes, total)

(* ------------------------------ inputs --------------------------------- *)
RECURSIVE subsets_up_to(_, _)
subsets_up_to(S, k) ==
    IF k = 0 THEN { {} }
    ELSE LET prev == subsets_up_to(S, k - 1)
         IN  prev \cup { T \cup {x} : T \in prev, x \in S }

Challenges(m, n) == subsets_up_to(0..(m * n - 1), MaxA)

seqs_up_to(S, k) == UNION { [ 1..j -> S ] : j \in 0..k }

AdvSteps(m, n) ==
    LET sizes == _layer_sizes_from_MN(m, n)
        H == Len(sizes) - 1
    IN  UNION { [ layer : {L},
                  indices : seqs_up_to((-1)..sizes[L + 1], AdvMaxEntries),
                  values : seqs_up_to(AdvValues, AdvMaxEntries) ] : L \in 1..H }

AdvProofs(m, n) == seqs_up_to(AdvSteps(m, n), AdvMaxSteps)

(* --------------------------- state machine ----------------------------- *)
(* __main__ (lines 149-165): build the tree, open a challenge set, verify. *)
Init ==
    /\ pc = "start"
    /\ M \in 1..MaxM
    /\ N \in 1..MaxN
    /\ M * N <= MaxLeaves
    /\ seed = << >>
    /\ A = {}
    /\ tree = << >>
    /\ proof = << >>
    /\ recovered = << >>
    /\ wlog = << >>
    /\ pos = 0

Generate ==
    /\ pc = "start"
    /\ \E sd \in Seeds :
         /\ seed' = sd
         /\ tree' = ggm_generate(sd, M, N)
    /\ pc' = "built"
    /\ UNCHANGED <<M, N, A, proof, recovered, wlog, pos>>

Open ==
    /\ pc = "built"
    /\ \E AA \in Challenges(M, N) :
         /\ A' = AA
         /\ proof' = ggm_open(tree, AA)
    /\ pc' = "call_verify"
    /\ UNCHANGED <<M, N, seed, tree, recovered, wlog, pos>>

VerifyBegin ==
    /\ pc = "call_verify"
    /\ LET sizes == _layer_sizes_from_MN(M, N)
           total == sizes[Len(sizes)]
       IN  recovered' = [ j \in 1..total |-> << >> ]
    /\ wlog' = << >>
    /\ pos' = 1
    /\ pc' = "verifying"
    /\ UNCHANGED <<M, N, seed, A, tree, proof>>

VerifyLevel ==
    /\ pc = "verifying"
    /\ pos <= Len(proof)
    /\ LET sizes == _layer_sizes_from_MN(M, N)
           H == Len(sizes) - 1
           total == sizes[Len(sizes)]
           st == verify_level([ recovered |-> recovered, wlog |-> wlog, raised |-> FALSE ],
                              proof[pos], H, sizes, total)
       IN  /\ recovered' = st.recovered
           /\ wlog' = st.wlog
           /\ pc' = IF st.raised THEN "raised" ELSE "verifying"
    /\ pos' = pos + 1
    /\ UNCHANGED <<M, N, seed, A, tree, proof>>

VerifyReturn ==
    /\ pc = "verifying"
    /\ pos > Len(proof)
    /\ pc' = "returned"
    /\ UNCHANGED <<M, N, seed, A, tree, proof, recovered, wlog, pos>>

Next == Generate \/ Open \/ VerifyBegin \/ VerifyLevel \/ VerifyReturn

Spec == Init /\ [][Next]_vars

(* ggm_verify called on a proof that did not come from ggm_open. *)
InitAdv ==
    /\ pc = "call_verify"
    /\ M \in 1..AdvMaxMN
    /\ N \in 1..AdvMaxMN
    /\ seed = << >>
    /\ A = {}
    /\ tree = << >>
    /\ proof \in AdvProofs(M, N)
    /\ recovered = << >>
    /\ wlog = << >>
    /\ pos = 0

NextAdv == VerifyBegin \/ VerifyLevel \/ VerifyReturn

SpecAdv == InitAdv /\ [][NextAdv]_vars

(* ------------------------- claim vocabulary ---------------------------- *)
HeightMN == height(M, N)
SizesMN == _layer_sizes_from_MN(M, N)
AbandonMN == elems(find_abandon_index(M, N))

\* the layer-L ancestor of index a of layer H, by repeated index halving
anc(a, H, L) == a \div shl1(H - L)

RECURSIVE popcount(_)
popcount(n) == IF n = 0 THEN 0 ELSE (n % 2) + popcount(n \div 2)

bit(n, i) == (n \div shl1(i)) % 2

RECURSIVE revealed_upto(_, _)
revealed_upto(p, k) == IF k = 0 THEN 0 ELSE Len(p[k].indices) + revealed_upto(p, k - 1)

revealed(p) == revealed_upto(p, Len(p))

\* the nodes a proof supplies to the verifier, as <<layer, index, value>>
Supplied(p) ==
    UNION { { << p[k].layer, p[k].indices[j], p[k].values[j] >> :
                j \in 1..zip_len(p[k].indices, p[k].values) } : k \in 1..Len(p) }

leaf_range(r, H, sizes) ==
    LET e == _expand_to_leaves(r[3], r[1], r[2], H, sizes)
    IN  e[1]..(e[1] + Len(e[2]) - 1)

(* C1: round trip.  When ggm_verify has run on ggm_open(ggm_generate(seed, *)
(* M,N), A), it returned an array of M*N entries that holds tree[H][i] at  *)
(* every leaf i not in A and b'' at every leaf i in A, for every A within  *)
(* 0..M*N-1, the empty set included.                                       *)
C1_RoundTrip ==
    pc \in {"returned", "raised"} =>
        /\ pc = "returned"
        /\ Len(recovered) = M * N
        /\ \A i \in 0..(M * N - 1) :
             recovered[i + 1] = IF i \in A THEN << >> ELSE tree[HeightMN + 1][i + 1]

\* The same round trip for the non-empty challenge sets only.
RoundTripNonEmpty == A # {} => C1_RoundTrip

(* C2: secrecy and non-overlap.  No node revealed by ggm_open is an        *)
(* ancestor of a leaf in A, the leaf ranges of two distinct revealed nodes *)
(* are disjoint, and at every point of ggm_verify no leaf in A has been    *)
(* written and no leaf has been written twice.                             *)
C2_SecrecyDisjoint ==
    /\ pc = "call_verify" =>
         LET H == HeightMN
             sizes == SizesMN
             R == { << r[1], r[2], leaf_range(r, H, sizes) >> : r \in Supplied(proof) }
         IN  /\ \A r \in R : \A a \in A : anc(a, H, r[1]) # r[2]
             /\ \A r1, r2 \in R : r1 # r2 => r1[3] \cap r2[3] = {}
             /\ Cardinality(R) = revealed(proof)
    /\ pc \in {"verifying", "returned", "raised"} =>
         /\ \A w \in 1..Len(wlog) : wlog[w][1] \notin A
         /\ Cardinality({ wlog[w][1] : w \in 1..Len(wlog) }) = Len(wlog)

C2_Witness ==
    /\ pc = "returned"
    /\ Cardinality(A) = 2
    /\ AbandonMN # {}
    /\ Len(wlog) = M * N - 2
    /\ \E r \in Supplied(proof) : Cardinality(leaf_range(r, HeightMN, SizesMN)) = 3

(* C3: ggm_generate returns H+1 layers whose lengths are the entries of    *)
(* _layer_sizes_from_MN; the first size is 1, every size is at least 1,    *)
(* each size is twice the previous one, less one on an abandon layer, and  *)
(* the last size is M*N.                                                   *)
C3_LayerSizes ==
    pc = "built" =>
        /\ Len(tree) = HeightMN + 1
        /\ Len(SizesMN) = HeightMN + 1
        /\ \A d \in 0..HeightMN : Len(tree[d + 1]) = SizesMN[d + 1] /\ SizesMN[d + 1] >= 1
        /\ SizesMN[1] = 1
        /\ \A d \in 0..(HeightMN - 1) :
             SizesMN[d + 2] = IF (d + 1) \in AbandonMN THEN 2 * SizesMN[d + 1] - 1
                                                       ELSE 2 * SizesMN[d + 1]
        /\ SizesMN[HeightMN + 1] = M * N

C3_Witness ==
    /\ pc = "built"
    /\ M = 3
    /\ N = 4
    /\ Len(tree) = 5
    /\ Len(tree[5]) = 12

(* C4: find_abandon_index returns pairwise distinct layers within 1..H,    *)
(* one layer H-i per set bit i of 2^H - M*N and so popcount(2^H - M*N) of  *)
(* them, and none exactly when M*N = 2^H.                                  *)
C4_AbandonLayers ==
    pc = "built" =>
        LET H == HeightMN
            out == find_abandon_index(M, N)
            diff == shl1(H) - M * N
        IN  /\ Cardinality(elems(out)) = Len(out)
            /\ elems(out) \subseteq 1..H
            /\ Len(out) = popcount(diff)
            /\ elems(out) = { H - i : i \in { b \in 0..H : bit(diff, b) = 1 } }
            /\ (out = << >>) <=> (M * N = shl1(H))

C4_Witness ==
    /\ pc = "built"
    /\ M = 3
    /\ N = 5
    /\ find_abandon_index(M, N) = << 1, 5 >>

(* C5: a proof with a step whose indices and values differ in length is    *)
(* rejected: ggm_verify does not return an array for it.                   *)
C5_MalformedRejected ==
    pc = "returned" =>
        \A k \in 1..Len(proof) : Len(proof[k].indices) = Len(proof[k].values)

(* C6: a proof whose re-expansion writes two different values to the same  *)
(* leaf index is rejected: ggm_verify does not return an array for it.     *)
C6_ConflictRejected ==
    pc = "returned" =>
        \A w1, w2 \in 1..Len(wlog) : wlog[w1][1] = wlog[w2][1] => wlog[w1][2] = wlog[w2][2]

(* C7: a proof containing an index i at a layer L in 1..H that is not a    *)
(* valid index of layer L makes ggm_verify raise: it does not return an    *)
(* array for it.                                                           *)
C7_OutOfRangeAborts ==
    pc = "returned" =>
        \A k \in 1..Len(proof) : \A j \in 1..Len(proof[k].indices) :
            (1 <= proof[k].layer /\ proof[k].layer <= HeightMN) =>
                (0 <= proof[k].indices[j] /\ proof[k].indices[j] < SizesMN[proof[k].layer + 1])

\* The same for the indices that have a value beside them.
OutOfRangePairedAborts ==
    pc = "returned" =>
        \A r \in Supplied(proof) :
            (1 <= r[1] /\ r[1] <= HeightMN) => (0 <= r[2] /\ r[2] < SizesMN[r[1] + 1])

(* C8: minimality.  For M = N = 2 opening {0,1} reveals fewer nodes than   *)
(* opening {0,2}; and opening any two distinct leaves together reveals     *)
(* fewer nodes than opening each alone.                                    *)
C8_Minimality ==
    pc = "call_verify" =>
        /\ (M = 2 /\ N = 2 /\ A = {0, 1}) =>
              revealed(proof) < revealed(ggm_open(tree, {0, 2}))
        /\ Cardinality(A) = 2 =>
              LET a == CHOOSE x \in A : TRUE
                  b == CHOOSE y \in A \ {a} : TRUE
              IN  revealed(proof) < revealed(ggm_open(tree, {a})) + revealed(ggm_open(tree, {b}))

C8_Witness ==
    /\ pc = "call_verify"
    /\ M = 2
    /\ N = 2
    /\ A = {0, 1}
    /\ revealed(proof) = 1
    /\ revealed(ggm_open(tree, {0, 2})) = 2

(* C9: proof format.  ggm_open returns H steps with layers H, H-1, ..., 1; *)
(* in each step the indices are strictly increasing, below the layer's     *)
(* size and not among the layer's ancestors of A, and values[j] is         *)
(* tree[layer][indices[j]].                                                *)
C9_ProofFormat ==
    pc = "call_verify" =>
        LET H == HeightMN
        IN  /\ Len(proof) = H
            /\ \A k \in 1..Len(proof) :
                 LET L == H - k + 1
                     idxs == proof[k].indices
                     vals == proof[k].values
                     known == { anc(a, H, L) : a \in A }
                 IN  /\ proof[k].layer = L
                     /\ \A j \in 1..(Len(idxs) - 1) : idxs[j] < idxs[j + 1]
                     /\ Len(vals) = Len(idxs)
                     /\ \A j \in 1..Len(idxs) :
                          /\ 0 <= idxs[j]
                          /\ idxs[j] < Len(tree[L + 1])
                          /\ idxs[j] \notin known
                          /\ vals[j] = tree[L + 1][idxs[j] + 1]

C9_Witness ==
    /\ pc = "call_verify"
    /\ M = 3
    /\ N = 5
    /\ Cardinality(A) = 3
    /\ Len(proof) = 5
    /\ \E k \in 1..Len(proof) : Len(proof[k].indices) = 3

(* C10: for every node (L,i) of the built tree, _expand_to_leaves returns  *)
(* (base, leaves) with leaves = tree[H][base : base+len(leaves)], that     *)
(* slice being exactly the leaf descendants of (L,i); and at each layer    *)
(* the size test drops a node exactly when the next layer is an abandon    *)
(* layer and the subtree holds the last node of the current layer.         *)
C10_ExpandMatchesBuilder ==
    pc = "built" =>
        \A L \in 0..HeightMN : \A i \in 0..(Len(tree[L + 1]) - 1) :
            LET H == HeightMN
                e == _expand_to_leaves(tree[L + 1][i + 1], L, i, H, SizesMN)
                base == e[1]
                leaves == e[2]
            IN  /\ 0 <= base
                /\ base + Len(leaves) <= Len(tree[H + 1])
                /\ leaves = SubSeq(tree[H + 1], base + 1, base + Len(leaves))
                /\ base..(base + Len(leaves) - 1) =
                     { j \in 0..(Len(tree[H + 1]) - 1) : anc(j, H, L) = i }
                /\ \A d \in L..(H - 1) :
                     LET D == { x \in 0..(Len(tree[d + 1]) - 1) : anc(x, d, L) = i }
                         lo == CHOOSE x \in D : \A y \in D : x <= y
                         hi == CHOOSE x \in D : \A y \in D : x >= y
                     IN  touches_last(2 * lo, 2 * hi + 1, SizesMN[d + 2])
                           <=> ((d + 1) \in AbandonMN /\ hi = Len(tree[d + 1]) - 1)

C10_Witness ==
    /\ pc = "built"
    /\ M = 3
    /\ N = 5
    /\ Len(_expand_to_leaves(tree[3][2], 2, 1, HeightMN, SizesMN)[2]) = 7

====
